---- MODULE Spec2Model ----
(***************************************************************************)
(* 2dShapes: the 2D affine transformation engine (matrix_math) and the     *)
(* render loop of main.js.                                                 *)
(*                                                                         *)
(* Numbers.  A JavaScript number is modelled in fixed point: the integer n *)
(* stands for n / Unit.  Sums are exact; a product or a quotient is        *)
(* rounded down to the next multiple of 1 / Unit.  Every input drawn below *)
(* is a whole number, Num(k), on which sums and products are exact.        *)
(*                                                                         *)
(* Arrays.  A JavaScript array is a sequence; At(M, i) is M[i] of the      *)
(* source (0-based).                                                       *)
(*                                                                         *)
(* Calls.  A call that can fail yields a completion record: Normal(v) when *)
(* it returns v, Thrown(e) when it ends by the exception e.  The engine's  *)
(* call stack holds at most MaxStack frames; a call made with the stack    *)
(* full ends by a RangeError instead of running its body.                  *)
(***************************************************************************)
EXTENDS Integers, Sequences, FiniteSets, TLC

\* ------------------------------------------------------------------ bounds

\* Fixed-point resolution: n stands for n / Unit.
Unit == 1000

\* Frames the engine's call stack can hold.
MaxStack == 4

\* ----------------------------------------------------------------- numbers

Num(k) == k * Unit

Mul(a, b) == (a * b) \div Unit

Div(a, b) == (a * Unit) \div b

\* Math.cos(undefined), Math.sin(undefined)
NaN == "NaN"

\* Math.cos and Math.sin take their argument in radians.  The table holds
\* the values, in thousandths, at the arguments the model uses.
MathCos(x) ==
  CASE x = Num(0)  -> Num(1)
    [] x = Num(90) -> (-448 * Unit) \div 1000
    [] OTHER       -> NaN

MathSin(x) ==
  CASE x = Num(0)  -> Num(0)
    [] x = Num(90) -> (894 * Unit) \div 1000
    [] OTHER       -> NaN

\* Math.cos(p) and Math.sin(p) of the first parameter of a call made with the
\* argument list args: the parameter is undefined when args is empty.
CosOfArg(args) == IF Len(args) = 0 THEN NaN ELSE MathCos(args[1])

SinOfArg(args) == IF Len(args) = 0 THEN NaN ELSE MathSin(args[1])

\* ------------------------------------------------------ arrays, completions

At(M, i) == M[i + 1]

Put(M, i, v) == [M EXCEPT ![i + 1] = v]

Normal(v) == [threw |-> FALSE, val |-> v]

Thrown(e) == [threw |-> TRUE, val |-> e]

RangeError == "RangeError: Maximum call stack size exceeded"

\* new Point(x, y)
Point(x, y) == [x |-> x, y |-> y]

\* ------------------------------------------------------------ matrix_math

makeIdentityMatrix == <<Num(1), 0, 0,  0, Num(1), 0,  0, 0, Num(1)>>

\* makeRotationMatrix(thetaInDegrees), called with the argument list args
\* and entered with depth frames on the stack.  Its first statement calls
\* makeRotationMatrix() again, with no argument; the assignments after it
\* run once that call has returned.
RECURSIVE makeRotationMatrix(_, _)
makeRotationMatrix(args, depth) ==
  IF depth >= MaxStack THEN Thrown(RangeError)
  ELSE LET inner == makeRotationMatrix(<<>>, depth + 1)
       IN  IF inner.threw THEN inner
           ELSE LET m0 == Put(inner.val, 0, CosOfArg(args))
                    m1 == Put(m0, 1, SinOfArg(args))
                    m3 == Put(m1, 3, IF Len(args) = 0 THEN NaN ELSE 0 - SinOfArg(args))
                    m4 == Put(m3, 4, CosOfArg(args))
                IN  Normal(m4)

\* makeTranslationMatrix(tx, ty), entered with depth frames on the stack.
makeTranslationMatrix(tx, ty, depth) ==
  IF depth >= MaxStack THEN Thrown(RangeError)
  ELSE LET inner == makeRotationMatrix(<<>>, depth + 1)
       IN  IF inner.threw THEN inner
           ELSE Normal(Put(Put(inner.val, 6, tx), 7, ty))

\* makeScaleMatrix(sx, sy), entered with depth frames on the stack.
makeScaleMatrix(sx, sy, depth) ==
  IF depth >= MaxStack THEN Thrown(RangeError)
  ELSE LET inner == makeRotationMatrix(<<>>, depth + 1)
       IN  IF inner.threw THEN inner
           ELSE Normal(Put(Put(inner.val, 0, sx), 4, sy))

\* multiplyMatrices with the operands' roles exchanged (M2 . M1).
multiplyMatricesSwapped(M1, M2) ==
  [ i \in 1..9 |->
      LET c == (i - 1) \div 3
          r == (i - 1) % 3
      IN  Mul(At(M2, r), At(M1, 3 * c)) + Mul(At(M2, 3 + r), At(M1, 3 * c + 1))
            + Mul(At(M2, 6 + r), At(M1, 3 * c + 2)) ]

\* multiplyMatrices(M1, M2): the nine assignments to M3.
multiplyMatrices(M1, M2) ==
  << Mul(At(M1,0), At(M2,0)) + Mul(At(M1,3), At(M2,1)) + Mul(At(M1,6), At(M2,2)),
     Mul(At(M1,1), At(M2,0)) + Mul(At(M1,4), At(M2,1)) + Mul(At(M1,7), At(M2,2)),
     Mul(At(M1,2), At(M2,0)) + Mul(At(M1,5), At(M2,1)) + Mul(At(M1,8), At(M2,2)),

     Mul(At(M1,0), At(M2,3)) + Mul(At(M1,3), At(M2,4)) + Mul(At(M1,6), At(M2,5)),
     Mul(At(M1,1), At(M2,3)) + Mul(At(M1,4), At(M2,4)) + Mul(At(M1,7), At(M2,5)),
     Mul(At(M1,2), At(M2,3)) + Mul(At(M1,5), At(M2,4)) + Mul(At(M1,8), At(M2,5)),

     Mul(At(M1,0), At(M2,6)) + Mul(At(M1,3), At(M2,7)) + Mul(At(M1,6), At(M2,8)),
     Mul(At(M1,1), At(M2,6)) + Mul(At(M1,4), At(M2,7)) + Mul(At(M1,7), At(M2,8)),
     Mul(At(M1,2), At(M2,6)) + Mul(At(M1,5), At(M2,7)) + Mul(At(M1,8), At(M2,8)) >>

\* A transformPoint that works on the point it is given: no Point is
\* constructed, x and y of P are assigned and P is returned.
transformPointInPlace(heap, P, M) ==
  LET myPoint == P
      h1      == [heap EXCEPT ![myPoint].x = At(heap[M], 6) + heap[P].x]
      h2      == [h1 EXCEPT ![myPoint].y = At(h1[M], 7) + h1[P].y]
  IN  [heap |-> h2, ret |-> myPoint]

\* transformPoint(P, M) on objects: heap is the sequence of the objects alive,
\* P and M are the positions of the arguments in it.  new Point(P.x, P.y, 1)
\* adds an object; the two assignments are made to it, and it is returned.
transformPointOnHeap(heap, P, M) ==
  LET myPoint == Len(heap) + 1
      h0      == Append(heap, Point(heap[P].x, heap[P].y))
      h1      == [h0 EXCEPT ![myPoint].x = At(h0[M], 6) + h0[P].x]
      h2      == [h1 EXCEPT ![myPoint].y = At(h1[M], 7) + h1[P].y]
  IN  [heap |-> h2, ret |-> myPoint]

\* transformPoint(P, M) on values: the Point the call returns.
transformPoint(P, M) ==
  LET call == transformPointOnHeap(<<P, M>>, 1, 2)
  IN  call.heap[call.ret]

\* orthoMatrix(b, t, l, r, n = -1.0, f = 1.0)
orthoMatrix(b, t, l, r, n, f) ==
  LET A1 == Div(Num(2), r - l)
      B1 == Div(Num(2), t - b)
      C1 == Div(Num(-2), f - n)
      A2 == Div(0 - (r + l), r - l)
      B2 == Div(0 - (t + b), t - b)
      C2 == Div(0 - (f + n), f - n)
  IN  << A1, 0, 0, 0,
         0, B1, 0, 0,
         0, 0, C1, 0,
         A2, B2, C2, Num(1) >>

\* rebuildTransformationMatrix(shape), entered with depth frames on the
\* stack: the shape as the call leaves it, and how the call ended.  The
\* assignment to shape.rotAroundCenter precedes the first builder call, so it
\* stands whichever way the call ends; shape.M is assigned last.
rebuildTransformationMatrix(shape, depth) ==
  IF depth >= MaxStack THEN [shape |-> shape, res |-> Thrown(RangeError)]
  ELSE
    LET tempMatrix == shape.M
        s1         == [shape EXCEPT !.rotAroundCenter = TRUE]
        tranMatrix == makeTranslationMatrix(s1.tx, s1.ty, depth + 1)
    IN  IF tranMatrix.threw THEN [shape |-> s1, res |-> tranMatrix]
        ELSE
          LET scaleMatrix == makeScaleMatrix(s1.sx, s1.sy, depth + 1)
          IN  IF scaleMatrix.threw THEN [shape |-> s1, res |-> scaleMatrix]
              ELSE
                LET rotMatrix == makeRotationMatrix(<<s1.rotAngle>>, depth + 1)
                IN  IF rotMatrix.threw THEN [shape |-> s1, res |-> rotMatrix]
                    ELSE
                      LET n1 == multiplyMatrices(s1.M, tranMatrix.val)
                          n2 == multiplyMatrices(n1, scaleMatrix.val)
                          n3 == multiplyMatrices(n2, rotMatrix.val)
                      IN  [shape |-> [s1 EXCEPT !.M = n3],
                           res   |-> Normal("undefined")]

\* ------------------------------------------------------------------- state

VARIABLES
  \* the arguments handed to the matrix functions: a point and two matrices
  P, A, B,
  \* the point P after the transformPoint calls made so far, and the names of
  \* the matrices those calls were given, in call order
  pt, path,
  \* the last call of a matrix function: its name, its arguments as they were
  \* when it was entered (for multiplyMatrices also which of A and B each
  \* was), and how it ended
  ret,
  \* the shapes handed to rebuildTransformationMatrix, and for each shape the
  \* calls made on it so far: the shape as the call found it, how the call
  \* ended and the shape.M it left
  shapes, rebuilds,
  \* main.js: whether the document-ready handler has run
  ready,
  \* main.js globals: gl and shader (0 is null, n the value the n-th run of
  \* initializeWebGL created), scene (the array Interface.scene also names),
  \* projM (Null until assigned)
  gl, shader, scene, projM,
  \* Interface.updateRequested
  updateRequested,
  \* checkRender callbacks requested with requestAnimationFrame and not yet run
  rafPending,
  \* the canvas' drawing-buffer size and the size it is displayed at
  canvas, display,
  \* whether the WebGL context is lost, and how often it has been lost
  contextLost, losses,
  \* the calls the frame that just ran made on gl, the shader and the shapes'
  \* buffers, in order, each with whether the context was lost when it was
  \* made (emptied by the next event)
  glLog,
  \* the value gl had when projM was last assigned (0: projM never assigned)
  projFrom,
  \* the frame (run of checkRender) that just ran: what it found and what it
  \* did (NoFrame once another event has followed)
  frame

matrixVars == <<P, A, B, pt, path, ret>>

shapeVars == <<shapes, rebuilds>>

renderVars == <<ready, gl, shader, scene, projM, updateRequested, rafPending,
                canvas, display, contextLost, losses, glLog, projFrom, frame>>

vars == <<matrixVars, shapeVars, renderVars>>

\* ------------------------------------------------- inputs (bounded domains)

\* transformPoint calls followed in one run.
MaxPath == 2

\* rebuildTransformationMatrix calls followed per shape.
MaxRebuilds == 2

\* Affine matrices (bottom row 0 0 1) as a caller can hold them: the identity,
\* a translation, a scale, a quarter turn and a scale with a translation.
AffineMatrices ==
  { makeIdentityMatrix,
    <<Num(1), 0, 0,  0, Num(1), 0,  Num(5), Num(-3), Num(1)>>,
    <<Num(2), 0, 0,  0, Num(2), 0,  0, 0, Num(1)>>,
    <<0, Num(1), 0,  Num(-1), 0, 0,  0, 0, Num(1)>>,
    <<Num(2), 0, 0,  0, Num(3), 0,  Num(1), Num(4), Num(1)>> }

Points == { Point(0, 0), Point(Num(1), 0), Point(Num(5), Num(5)), Point(Num(-2), Num(3)) }

Translations == { 0, Num(5), Num(-3), Num(10) }

Scales == { Num(1), Num(2) }

Angles == { Num(0), Num(90) }

NoCall == [fn |-> "none", args |-> <<>>, res |-> Normal("undefined")]

\* The shape properties rebuildTransformationMatrix is told it will find,
\* with the centroid computeCentroid() returns.
Shapes ==
  [ tx : {0, Num(10)}, ty : {0, Num(-3)}, sx : Scales, sy : {Num(2)},
    rotAngle : Angles, rotAroundCenter : BOOLEAN,
    M : { makeIdentityMatrix,
          <<Num(1), 0, 0,  0, Num(1), 0,  Num(1), 0, Num(1)>> },
    centroid : { Point(Num(5), Num(5)) } ]

NoShapes == <<>>

\* No matrix function called, no shape rebuilt, the page not yet loaded: what
\* a run that does not exercise that part holds for it.
MatrixIdle ==
  /\ P = Point(0, 0)
  /\ A = makeIdentityMatrix
  /\ B = makeIdentityMatrix
  /\ pt = P
  /\ path = <<>>
  /\ ret = NoCall

ShapeIdle ==
  /\ shapes = NoShapes
  /\ rebuilds = <<>>

\* ----------------------------------------------------------------- main.js

\* Context losses followed in one run.
MaxLosses == 2

\* Shapes the interface adds to one scene.
MaxShapes == 2

Null == <<>>

\* Sizes the canvas is created with or displayed at (width x height).
Sizes == { [width |-> 300, height |-> 150], [width |-> 201, height |-> 101] }

\* Shape.SHAPE_TYPE
ShapeTypes == {"LINE", "TRIANGLE", "CIRCLE"}

\* The shapes the interface puts in the scene.
SceneShapes == [ type : ShapeTypes, filled : BOOLEAN, M : {makeIdentityMatrix} ]

\* No frame has run yet.
NoFrame ==
  [ ran |-> FALSE, gl |-> 0, projFrom |-> 0, scene |-> <<>>, resized |-> FALSE,
    requested |-> FALSE, rendered |-> FALSE, threw |-> FALSE,
    updateRequested |-> FALSE ]

\* An event other than a frame: what the last frame did is no longer held.
Forget == glLog' = <<>> /\ frame' = NoFrame

\* The module's globals as declared (all null), before the document is ready.
RenderInit ==
  /\ ready = FALSE
  /\ gl = 0
  /\ shader = 0
  /\ scene = Null
  /\ projM = Null
  /\ updateRequested = FALSE
  /\ rafPending = 0
  /\ canvas \in Sizes
  /\ display \in Sizes
  /\ contextLost = FALSE
  /\ losses = 0
  /\ glLog = <<>>
  /\ projFrom = 0
  /\ frame = NoFrame

RenderIdle ==
  /\ RenderInit
  /\ canvas = [width |-> 300, height |-> 150]
  /\ display = canvas

\* One logged call: on which shape of the scene (0: none), with which argument.
GlCall(op, i, arg, lost) == [op |-> op, shape |-> i, arg |-> arg, lost |-> lost]

ClearOps == {"clear"}

DrawOps == {"drawLineLoop", "drawTriangleFan", "drawLines", "drawTriangles"}

\* The choice of draw call without the exception for lines: every outline is
\* drawn as a line loop.
DrawCallsOutlineLoop(shape) ==
  IF ~shape.filled THEN <<"drawLineLoop">>
  ELSE CASE shape.type = "CIRCLE"   -> <<"drawTriangleFan">>
         [] shape.type = "LINE"     -> <<"drawLines">>
         [] shape.type = "TRIANGLE" -> <<"drawTriangles">>
         [] OTHER                   -> <<>>

\* renderShape's choice of draw call: the calls made on shape.buffer, in order.
DrawCalls(shape) ==
  IF ~shape.filled /\ shape.type # "LINE" THEN <<"drawLineLoop">>
  ELSE CASE shape.type = "CIRCLE"   -> <<"drawTriangleFan">>
         [] shape.type = "LINE"     -> <<"drawLines">>
         [] shape.type = "TRIANGLE" -> <<"drawTriangles">>
         [] OTHER                   -> <<>>

\* renderShape(shape, index) with the projection matrix proj: the calls it
\* makes.  throws: shader.uProjection raises on the argument it is given, which
\* ends renderShape there.
renderShape(shape, index, proj, lost, throws) ==
  LET binds == << GlCall("passToShader", index, Null, lost),
                  GlCall("uProjection", index, proj, lost) >>
  IN  IF throws THEN binds
      ELSE binds \o << GlCall("attribPointer", index, Null, lost) >>
                 \o [ k \in 1..Len(DrawCalls(shape)) |->
                        GlCall(DrawCalls(shape)[k], index, Null, lost) ]

\* scene.forEach(renderShape) from the index-th shape on: an exception ends
\* the iteration.
RECURSIVE forEachRenderShape(_, _, _, _, _)
forEachRenderShape(shs, index, proj, lost, throws) ==
  IF index > Len(shs) THEN <<>>
  ELSE renderShape(shs[index], index, proj, lost, throws)
         \o (IF throws THEN <<>>
             ELSE forEachRenderShape(shs, index + 1, proj, lost, throws))

\* renderScene(time)
renderScene(shs, proj, lost, throws) ==
  << GlCall("clear", 0, Null, lost), GlCall("use", 0, Null, lost) >>
    \o forEachRenderShape(shs, 1, proj, lost, throws)

\* resizeCanvasToDisplaySize(canvas): whether the drawing buffer's size
\* differs from the displayed size (it is then set to it).
NeedsResize == canvas # display

\* initializeWebGL(): a new context handle and shader program, an empty scene
\* shared with the interface, and one more checkRender callback requested.
\* projM, the canvas and Interface.updateRequested are not touched.
initializeWebGL ==
  /\ gl' = gl + 1
  /\ shader' = shader + 1
  /\ scene' = <<>>
  /\ rafPending' = rafPending + 1
  /\ UNCHANGED <<projM, projFrom, updateRequested, canvas, display>>

\* $(document).ready: the listeners are registered, then initializeWebGL()
\* and Interface.initialize() run.
DocumentReady ==
  /\ ~ready
  /\ ready' = TRUE
  /\ initializeWebGL
  /\ Forget
  /\ UNCHANGED <<contextLost, losses, matrixVars, shapeVars>>

\* webglcontextlost: the handler only prevents the default, which leaves the
\* context restorable.
ContextLost ==
  /\ ready
  /\ ~contextLost
  /\ losses < MaxLosses
  /\ contextLost' = TRUE
  /\ losses' = losses + 1
  /\ Forget
  /\ UNCHANGED <<ready, gl, shader, scene, projM, updateRequested, rafPending,
                 canvas, display, projFrom, matrixVars, shapeVars>>

\* webglcontextrestored: the handler is initializeWebGL.
ContextRestored ==
  /\ ready
  /\ contextLost
  /\ contextLost' = FALSE
  /\ initializeWebGL
  /\ Forget
  /\ UNCHANGED <<ready, losses, matrixVars, shapeVars>>

\* resizeCanvas() without its assignment to projM: the viewport follows the
\* canvas, the projection does not.
resizeCanvasStaleProjection ==
  IF NeedsResize
  THEN [ resized |-> TRUE,
         projM   |-> projM,
         calls   |-> << GlCall("viewport", 0, Null, contextLost) >> ]
  ELSE [ resized |-> FALSE, projM |-> projM, calls |-> <<>> ]

\* resizeCanvas(): when the canvas needed a resize, the viewport is set and
\* projM is rebuilt from the new canvas dimensions; projM is assigned nowhere
\* else.
resizeCanvas ==
  IF NeedsResize
  THEN [ resized |-> TRUE,
         projM   |-> orthoMatrix(0, Num(display.height - 1),
                                 0, Num(display.width - 1), Num(-1), Num(1)),
         calls   |-> << GlCall("viewport", 0, Null, contextLost) >> ]
  ELSE [ resized |-> FALSE, projM |-> projM, calls |-> <<>> ]

\* checkRender rendering only when the canvas was resized: the interface's
\* update request is neither honoured nor reset.
checkRenderResizeOnly ==
  /\ rafPending > 0
  /\ LET rc     == resizeCanvas
         render == rc.resized
     IN  \E throws \in (IF render /\ scene # <<>> /\ rc.projM = Null
                        THEN BOOLEAN ELSE {FALSE}) :
           /\ canvas' = display
           /\ projM' = rc.projM
           /\ updateRequested' = updateRequested
           /\ glLog' = rc.calls \o (IF render
                                    THEN renderScene(scene, rc.projM, contextLost, throws)
                                    ELSE <<>>)
           /\ rafPending' = IF throws THEN rafPending - 1 ELSE rafPending
           /\ projFrom' = IF rc.resized THEN gl ELSE projFrom
           /\ frame' = [ ran |-> TRUE, gl |-> gl, projFrom |-> projFrom',
                         scene |-> scene, resized |-> rc.resized,
                         requested |-> updateRequested, rendered |-> render,
                         threw |-> throws, updateRequested |-> updateRequested' ]
  /\ UNCHANGED <<ready, gl, shader, scene, display, contextLost, losses,
                 matrixVars, shapeVars>>

\* checkRender(time): one pending callback runs.  The scene is rendered when
\* resizeCanvas() resized the canvas or the interface asked for an update;
\* then the callback is requested again, unless an exception ended the frame
\* before that.  Whether shader.uProjection raises when it is handed null is
\* the shader library's matter: both outcomes are followed.
checkRender ==
  /\ rafPending > 0
  /\ LET rc     == resizeCanvas
         render == rc.resized \/ updateRequested
     IN  \E throws \in (IF render /\ scene # <<>> /\ rc.projM = Null
                        THEN BOOLEAN ELSE {FALSE}) :
           /\ canvas' = display
           /\ projM' = rc.projM
           /\ updateRequested' = IF render THEN FALSE ELSE updateRequested
           /\ glLog' = rc.calls \o (IF render
                                    THEN renderScene(scene, rc.projM, contextLost, throws)
                                    ELSE <<>>)
           /\ rafPending' = IF throws THEN rafPending - 1 ELSE rafPending
           /\ projFrom' = IF rc.resized THEN gl ELSE projFrom
           /\ frame' = [ ran |-> TRUE, gl |-> gl, projFrom |-> projFrom',
                         scene |-> scene, resized |-> rc.resized,
                         requested |-> updateRequested, rendered |-> render,
                         threw |-> throws, updateRequested |-> updateRequested' ]
  /\ UNCHANGED <<ready, gl, shader, scene, display, contextLost, losses,
                 matrixVars, shapeVars>>

\* The window is resized: the canvas is displayed at another size.
WindowResize ==
  /\ \E size \in Sizes \ {display} : display' = size
  /\ Forget
  /\ UNCHANGED <<ready, gl, shader, scene, projM, updateRequested, rafPending,
                 canvas, contextLost, losses, projFrom, matrixVars, shapeVars>>

\* The interface adds a shape to Interface.scene and asks for an update.
InterfaceAddShape ==
  /\ ready
  /\ Len(scene) < MaxShapes
  /\ \E shape \in SceneShapes : scene' = Append(scene, shape)
  /\ updateRequested' = TRUE
  /\ Forget
  /\ UNCHANGED <<ready, gl, shader, projM, rafPending, canvas, display,
                 contextLost, losses, projFrom, matrixVars, shapeVars>>

\* The interface asks for an update of the scene as it is.
InterfaceRequestUpdate ==
  /\ ready
  /\ updateRequested' = TRUE
  /\ Forget
  /\ UNCHANGED <<ready, gl, shader, scene, projM, rafPending, canvas, display,
                 contextLost, losses, projFrom, matrixVars, shapeVars>>

Init == RenderInit /\ MatrixIdle /\ ShapeIdle

Next ==
  \/ DocumentReady
  \/ ContextLost
  \/ ContextRestored
  \/ checkRender
  \/ WindowResize
  \/ InterfaceAddShape
  \/ InterfaceRequestUpdate

Spec == Init /\ [][Next]_vars

\* requestAnimationFrame runs a requested callback at the next repaint: a
\* pending checkRender is not put off for ever.
SpecFair == Spec /\ WF_vars(checkRender)


\* ------------------------------------------------- the matrix functions run

MatrixInit ==
  /\ P \in Points
  /\ A \in AffineMatrices
  /\ B \in AffineMatrices
  /\ pt = P
  /\ path = <<>>
  /\ ret = NoCall
  /\ ShapeIdle
  /\ RenderIdle

Named(m) == IF m = "A" THEN A ELSE B

CallTransformPoint ==
  /\ Len(path) < MaxPath
  /\ \E m \in {"A", "B"} :
       LET call == transformPointOnHeap(<<pt, Named(m)>>, 1, 2)
       IN  /\ pt' = call.heap[call.ret]
           /\ path' = Append(path, m)
           /\ ret' = [fn |-> "transformPoint", args |-> <<pt, Named(m)>>,
                      res |-> Normal(pt'),
                      after |-> <<call.heap[1], call.heap[2]>>,
                      isArg |-> call.ret \in {1, 2}]
  /\ UNCHANGED <<P, A, B, shapeVars, renderVars>>

CallMultiplyMatrices ==
  /\ \E m1 \in {"A", "B"}, m2 \in {"A", "B"} :
       ret' = [fn |-> "multiplyMatrices", refs |-> <<m1, m2>>,
               args |-> <<Named(m1), Named(m2)>>,
               res |-> Normal(multiplyMatrices(Named(m1), Named(m2)))]
  /\ UNCHANGED <<P, A, B, pt, path, shapeVars, renderVars>>

CallMakeIdentityMatrix ==
  /\ ret' = [fn |-> "makeIdentityMatrix", args |-> <<>>,
             res |-> Normal(makeIdentityMatrix)]
  /\ UNCHANGED <<P, A, B, pt, path, shapeVars, renderVars>>

\* The builders and the rebuild are called from the event loop: they are
\* entered with no frame beneath them (depth 0).
CallMakeTranslationMatrix ==
  /\ \E tx \in Translations, ty \in Translations :
       ret' = [fn |-> "makeTranslationMatrix", args |-> <<tx, ty>>,
               res |-> makeTranslationMatrix(tx, ty, 0)]
  /\ UNCHANGED <<P, A, B, pt, path, shapeVars, renderVars>>

CallMakeScaleMatrix ==
  /\ \E sx \in Scales, sy \in Scales :
       ret' = [fn |-> "makeScaleMatrix", args |-> <<sx, sy>>,
               res |-> makeScaleMatrix(sx, sy, 0)]
  /\ UNCHANGED <<P, A, B, pt, path, shapeVars, renderVars>>

CallMakeRotationMatrix ==
  /\ \E theta \in Angles :
       ret' = [fn |-> "makeRotationMatrix", args |-> <<theta>>,
               res |-> makeRotationMatrix(<<theta>>, 0)]
  /\ UNCHANGED <<P, A, B, pt, path, shapeVars, renderVars>>

MatrixNext ==
  \/ CallTransformPoint
  \/ CallMultiplyMatrices
  \/ CallMakeIdentityMatrix
  \/ CallMakeTranslationMatrix
  \/ CallMakeScaleMatrix
  \/ CallMakeRotationMatrix

SpecMatrix == MatrixInit /\ [][MatrixNext]_vars

\* ------------------------------------------------------- the shape rebuilds

ShapeInit ==
  /\ shapes \in [1..2 -> Shapes]
  /\ rebuilds = [i \in 1..2 |-> <<>>]
  /\ MatrixIdle
  /\ RenderIdle

CallRebuildTransformationMatrix(i) ==
  /\ Len(rebuilds[i]) < MaxRebuilds
  /\ LET call == rebuildTransformationMatrix(shapes[i], 0)
     IN  /\ shapes' = [shapes EXCEPT ![i] = call.shape]
         /\ rebuilds' = [rebuilds EXCEPT ![i] =
                           Append(@, [entry |-> shapes[i], res |-> call.res,
                                      M |-> call.shape.M])]
  /\ UNCHANGED <<matrixVars, renderVars>>

ShapeNext == \E i \in 1..2 : CallRebuildTransformationMatrix(i)

SpecShape == ShapeInit /\ [][ShapeNext]_vars

\* ------------------------------------------ what the specification asks for

\* The elementary matrices of the specification: the identity with the
\* translation column, the diagonal, or the rotation block set.
RefTranslation(tx, ty) == <<Num(1), 0, 0,  0, Num(1), 0,  tx, ty, Num(1)>>

RefScale(sx, sy) == <<sx, 0, 0,  0, sy, 0,  0, 0, Num(1)>>

\* The rotation by an angle given in degrees, at the right angles.
RefRotation(deg) ==
  IF deg = Num(90) THEN <<0, Num(1), 0,  Num(-1), 0, 0,  0, 0, Num(1)>>
  ELSE <<Num(1), 0, 0,  0, Num(1), 0,  0, 0, Num(1)>>

\* Column c, row r of the product M1 . M2 in column-major layout: the sum over
\* k of M1[3k+r] * M2[3c+k].
RECURSIVE RefEntrySum(_, _, _, _, _)
RefEntrySum(M1, M2, c, r, k) ==
  IF k < 0 THEN 0
  ELSE Mul(At(M1, 3 * k + r), At(M2, 3 * c + k)) + RefEntrySum(M1, M2, c, r, k - 1)

RefProduct(M1, M2) == [ i \in 1..9 |-> RefEntrySum(M1, M2, (i - 1) \div 3, (i - 1) % 3, 2) ]

\* M . (P.x, P.y, 1)
RefTransformPoint(Q, M) ==
  Point(Mul(At(M, 0), Q.x) + Mul(At(M, 3), Q.y) + At(M, 6),
        Mul(At(M, 1), Q.x) + Mul(At(M, 4), Q.y) + At(M, 7))

\* Translation(+c) . X . Translation(-c)
RefAbout(c, X) ==
  RefProduct(RefTranslation(c.x, c.y), RefProduct(X, RefTranslation(0 - c.x, 0 - c.y)))

\* Translation . Scale-around-centre . Rotation(-around-centre-or-origin)
RefModelMatrix(sh) ==
  LET rot == IF sh.rotAroundCenter THEN RefAbout(sh.centroid, RefRotation(sh.rotAngle))
             ELSE RefRotation(sh.rotAngle)
  IN  RefProduct(RefTranslation(sh.tx, sh.ty),
                 RefProduct(RefAbout(sh.centroid, RefScale(sh.sx, sh.sy)), rot))

TransformFields(sh) ==
  <<sh.tx, sh.ty, sh.sx, sh.sy, sh.rotAngle, sh.rotAroundCenter, sh.centroid>>

ShapeIds == DOMAIN rebuilds

\* ------------------------------------------------------------------ claims

\* C1 (as claimed): the shape.M a call of rebuildTransformationMatrix leaves
\* depends only on tx, ty, sx, sy, rotAngle, rotAroundCenter and the centroid
\* the call found, never on the M it found: two calls that found the same
\* fields leave the same M, whatever M each shape held before; and a second
\* call in a row leaves the M the first one left.
C1_RebuildFromScratch ==
  /\ \A i \in ShapeIds, j \in ShapeIds :
       \A k \in 1..Len(rebuilds[i]), l \in 1..Len(rebuilds[j]) :
         TransformFields(rebuilds[i][k].entry) = TransformFields(rebuilds[j][l].entry)
           => rebuilds[i][k].M = rebuilds[j][l].M
  /\ \A i \in ShapeIds :
       Len(rebuilds[i]) >= 2 => rebuilds[i][2].M = rebuilds[i][1].M

\* C2 (as claimed): after rebuildTransformationMatrix(shape), shape.M is
\* Translation(tx,ty) . [Translation(+c) . Scale(sx,sy) . Translation(-c)] . Rot
\* with Rot the rotation about the centroid c when rotAroundCenter is true and
\* about the origin when it is false.
C2_RebuildComposition ==
  \A i \in ShapeIds :
    \A k \in 1..Len(rebuilds[i]) :
      rebuilds[i][k].M = RefModelMatrix(rebuilds[i][k].entry)

\* C3 (as claimed): for a shape with rotAngle = 0, after
\* rebuildTransformationMatrix(shape) the point transformPoint(centroid, shape.M)
\* is (centroid.x + tx, centroid.y + ty), whatever sx and sy are.
C3_ScalePivotsAtCentre ==
  \A i \in ShapeIds :
    \A k \in 1..Len(rebuilds[i]) :
      LET sh == rebuilds[i][k].entry
      IN  sh.rotAngle = 0
            => transformPoint(sh.centroid, rebuilds[i][k].M)
                 = Point(sh.centroid.x + sh.tx, sh.centroid.y + sh.ty)

\* C4 (as claimed): every call of rebuildTransformationMatrix runs to
\* completion: it returns control to its caller (it does not end by an
\* exception) with shape.M set to a 9-element matrix.
C4_RebuildCompletes ==
  \A i \in ShapeIds :
    \A k \in 1..Len(rebuilds[i]) :
      /\ ~rebuilds[i][k].res.threw
      /\ Len(rebuilds[i][k].M) = 9

\* C5 (as claimed): transformPoint(P, M) returns the full homogeneous product
\* x' = M[0]*P.x + M[3]*P.y + M[6], y' = M[1]*P.x + M[4]*P.y + M[7].
C5_TransformPointFullProduct ==
  ret.fn = "transformPoint"
    => ret.res.val = RefTransformPoint(ret.args[1], ret.args[2])

\* C6 (as claimed): for all affine A, B and points P,
\* transformPoint(transformPoint(P, A), B) = transformPoint(P, multiplyMatrices(B, A)).
C6_CompositionLaw ==
  Len(path) = 2
    => pt = transformPoint(P, multiplyMatrices(Named(path[2]), Named(path[1])))

\* C7: multiplyMatrices(M1, M2) is the standard 3x3 product in column-major
\* layout: for every column c and row r in 0..2, result[3c+r] is the sum over k
\* in 0..2 of M1[3k+r] * M2[3c+k]; the result has 9 elements and, after the
\* call, M1 and M2 hold what they held when it was entered.
C7_MultiplyIsColumnMajorProduct ==
  ret.fn = "multiplyMatrices"
    => /\ Len(ret.res.val) = 9
       /\ \A c \in 0..2, r \in 0..2 :
            At(ret.res.val, 3 * c + r) = RefEntrySum(ret.args[1], ret.args[2], c, r, 2)
       /\ ~ret.res.threw
       /\ Named(ret.refs[1]) = ret.args[1]
       /\ Named(ret.refs[2]) = ret.args[2]

\* C7 witness: multiplyMatrices has returned the product of two matrices that
\* do not commute, so the operand order shows in the result.
C7_Witness ==
  /\ ret.fn = "multiplyMatrices"
  /\ ret.res.val # RefProduct(ret.args[2], ret.args[1])
  /\ ret.res.val # ret.args[1]
  /\ ret.res.val # ret.args[2]

\* C8 (as claimed): makeTranslationMatrix(tx, ty) returns
\* [1,0,0, 0,1,0, tx,ty,1] for all tx and ty.
C8_TranslationMatrix ==
  ret.fn = "makeTranslationMatrix"
    => /\ ~ret.res.threw
       /\ ret.res.val = RefTranslation(ret.args[1], ret.args[2])

\* C9 (as claimed): frames are strictly sequential: across any interleaving of
\* frame callbacks, context-lost and context-restored events, at most one
\* checkRender callback is pending with requestAnimationFrame.
C9_OneFramePending == rafPending <= 1

\* C10 (as claimed): while the context is lost (from the webglcontextlost event
\* to the following webglcontextrestored event) no frame performs gl.clear or
\* a draw call, even if the canvas is resized or an update is requested.
C10_NoDrawWhileLost ==
  \A k \in 1..Len(glLog) :
    glLog[k].op \in ClearOps \cup DrawOps => ~glLog[k].lost

\* The entries of the frame's log that are draw calls.
DrawEntries == { k \in 1..Len(glLog) : glLog[k].op \in DrawOps }

\* C11 (as claimed): after the webglcontextrestored handler, gl, shader, scene
\* and projM are all freshly created, so no shape is drawn after a restoration
\* with a projM that was computed before the context was lost: the projM a
\* frame draws with was assigned under the gl that frame runs with.
C11_NoStaleProjection ==
  DrawEntries # {} => frame.projFrom \notin 1..(frame.gl - 1)

\* renderScene ran in the frame: its first call is gl.clear.
RenderSceneRan == \E k \in 1..Len(glLog) : glLog[k].op \in ClearOps

\* C12: in every checkRender frame renderScene runs if and only if the canvas
\* size changed in that frame or Interface.updateRequested was true when the
\* frame started; after a frame that rendered, Interface.updateRequested is
\* false; and, provided frames keep being scheduled, every update request is
\* eventually followed by a frame that runs renderScene.
C12_RendersWhenRequired ==
  /\ [](frame.ran => (RenderSceneRan <=> (frame.resized \/ frame.requested)))
  /\ [](frame.ran /\ RenderSceneRan => ~updateRequested)
  /\ ([]<>(rafPending > 0)) => (updateRequested ~> (RenderSceneRan /\ ~updateRequested))

\* C12 witness: a frame that found the canvas at its display size and an update
\* requested has run renderScene and reset the request.
C12_Witness ==
  /\ frame.ran
  /\ frame.requested
  /\ ~frame.resized
  /\ RenderSceneRan
  /\ ~updateRequested

\* The calls made on behalf of the shape of draw entry k before that draw.
CallsBeforeDraw(k) == { j \in 1..(k - 1) : glLog[j].shape = glLog[k].shape }

\* C13 (as claimed): for every shape drawn in a render pass, the shape's
\* model matrix shape.M and the shared projection matrix projM have both been
\* handed to the shader before the shape's draw call.
C13_MatricesBoundBeforeDraw ==
  \A k \in DrawEntries :
    /\ \E j \in CallsBeforeDraw(k) : glLog[j].arg = frame.scene[glLog[k].shape].M
    /\ \E j \in CallsBeforeDraw(k) :
         glLog[j].op = "uProjection" /\ glLog[j].arg = projM

\* The draw call the table of types and fill states asks for.
ExpectedDraw(type, filled) ==
  CASE type = "LINE"                  -> "drawLines"
    [] type = "CIRCLE" /\ ~filled     -> "drawLineLoop"
    [] type = "TRIANGLE" /\ ~filled   -> "drawLineLoop"
    [] type = "CIRCLE" /\ filled      -> "drawTriangleFan"
    [] type = "TRIANGLE" /\ filled    -> "drawTriangles"

\* The shapes of the frame's scene for which renderShape got as far as
\* binding the vertex buffer, the statement before the draw selection.
ShapesAtDrawSelection ==
  { glLog[k].shape : k \in { j \in 1..Len(glLog) : glLog[j].op = "attribPointer" } }

CanvasProjection(c) ==
  orthoMatrix(0, Num(c.height - 1), 0, Num(c.width - 1), Num(-1), Num(1))

\* The projection matrices handed to the shader in the frame.
ProjectionsUsed ==
  { glLog[k].arg : k \in { j \in 1..Len(glLog) : glLog[j].op = "uProjection" } }

\* C15: in a frame that detects a canvas size change, projM is replaced by
\* orthoMatrix(0, height-1, 0, width-1) of the new canvas dimensions before any
\* shape of that frame is drawn, so every draw after a resize uses a
\* projection matching the current canvas size.
C15_ProjectionFollowsResize ==
  /\ frame.ran /\ frame.resized =>
       /\ canvas = display
       /\ projM = CanvasProjection(canvas)
       /\ ProjectionsUsed \subseteq {CanvasProjection(canvas)}
  /\ projM # Null => ProjectionsUsed \subseteq {CanvasProjection(canvas)}

\* C15 witness: a frame has resized the canvas and then drawn a shape with
\* the projection of the new size.
C15_Witness ==
  /\ frame.ran
  /\ frame.resized
  /\ DrawEntries # {}
  /\ ProjectionsUsed = {CanvasProjection(canvas)}

\* The scalar transform fields of a shape.
ScalarFields(sh) == <<sh.tx, sh.ty, sh.sx, sh.sy, sh.rotAngle, sh.rotAroundCenter>>

\* C16 (as claimed): rebuildTransformationMatrix only reads the scalar
\* transform fields: after any call tx, ty, sx, sy, rotAngle and
\* rotAroundCenter are what they were before the call; a shape with
\* rotAroundCenter = false still has rotAroundCenter = false.
C16_RebuildKeepsScalarFields ==
  \A i \in ShapeIds :
    Len(rebuilds[i]) > 0 =>
      ScalarFields(shapes[i]) = ScalarFields(rebuilds[i][Len(rebuilds[i])].entry)

\* C17: transformPoint(P, M) never mutates its inputs: after the call P.x,
\* P.y and the nine entries of M are what they were, and the Point returned is
\* an object distinct from P.
C17_TransformPointLeavesInputs ==
  ret.fn = "transformPoint"
    => /\ ret.after[1] = ret.args[1]
       /\ ret.after[2] = ret.args[2]
       /\ ~ret.isArg

\* C17 witness: a call that returned a point with other coordinates than P,
\* after which P still holds its own.
C17_Witness ==
  /\ ret.fn = "transformPoint"
  /\ ret.res.val.x # ret.args[1].x
  /\ ret.res.val.y # ret.args[1].y
  /\ ret.after[1] = ret.args[1]

\* C18 (as claimed): makeRotationMatrix(thetaDegrees) takes its argument in
\* degrees and converts it to radians before cos and sin: it returns
\* [cos t, sin t, 0, -sin t, cos t, 0, 0, 0, 1] with t = thetaDegrees * pi / 180,
\* at the right angles exactly [1,0,0,0,1,0,0,0,1] for 0 and
\* [0,1,0,-1,0,0,0,0,1] for 90.
C18_RotationMatrixInDegrees ==
  ret.fn = "makeRotationMatrix"
    => /\ ~ret.res.threw
       /\ ret.res.val = RefRotation(ret.args[1])

\* The draw calls of the frame, in the order they were issued.
DrawSequence == SelectSeq(glLog, LAMBDA e : e.op \in DrawOps)

\* C19 (as claimed): within one render pass every shape of the scene array is
\* drawn exactly once and in array index order, after exactly one clear of
\* the colour buffer; no shape is skipped, repeated or reordered.
C19_DrawnOnceInSceneOrder ==
  frame.ran /\ RenderSceneRan =>
    /\ Len(DrawSequence) = Len(frame.scene)
    /\ \A i \in 1..Len(DrawSequence) : DrawSequence[i].shape = i
    /\ Cardinality({ k \in 1..Len(glLog) : glLog[k].op \in ClearOps }) = 1
    /\ \A k \in DrawEntries : \E j \in 1..(k - 1) : glLog[j].op \in ClearOps

\* C20 (as claimed): whenever renderShape runs, projM is a 16-element matrix
\* and not null: no shape is rendered before the first resizeCanvas that
\* resized has assigned projM.
C20_ProjectionSetBeforeRender ==
  \A m \in ProjectionsUsed : m # Null /\ Len(m) = 16

====
